---------------------------- MODULE Spec2Model ----------------------------
(***************************************************************************)
(* Subtitle segmentation and timing engine of AdLocalizer2025              *)
(* (src/2_OpenAI_SRT_Term_split.py): the timecode codec, split_lines,      *)
(* process_srt and save_transcript_and_create_srt; and the retry loop of   *)
(* translate_text (src/0_OpenAI_Translations.py).                          *)
(*                                                                         *)
(* A Python string is a sequence of characters; a character is a TLA+      *)
(* string.  ASCII characters are themselves ("a", " ", ".", "\n"); a       *)
(* character outside ASCII is named by its code point ("U+4E2D").          *)
(***************************************************************************)
EXTENDS Integers, Sequences, FiniteSets, TLC

VARIABLES
    tc_pc, tc_ms, tc_text, tc_back,          \* timecode codec round trip
    sl_pc, sl_text, sl_max, sl_cjk, sl_out, sl_src, sl_units, \* one call of split_lines
    file_path, entries, pos, new_entries, origin, raised, new_file, original, \* process_srt
    in_cues, out_cues,                       \* process_srt: the entries as parsed
    segments, seg_i, srt_content, seg_pc,    \* save_transcript_and_create_srt
    cd_pc, cd_cues, cd_content, cd_read,     \* a cue list written and read back
    lg_pc, lg_path, lg_language, lg_is_cjk, lg_max_length, \* lines 88-103 of process_srt
    tr_pc, tr_max_retries, tr_attempt, tr_log, tr_result, tr_raised, \* translate_text
    sc_pc, sc_text, sc_max, sc_cjk, sc_st, sc_words, sc_steps, sc_out \* split_lines, loop by loop

tcVars  == <<tc_pc, tc_ms, tc_text, tc_back>>
slVars  == <<sl_pc, sl_text, sl_max, sl_cjk, sl_out, sl_src, sl_units>>
srtVars == <<file_path, entries, pos, new_entries, origin, raised, new_file, original,
             in_cues, out_cues>>
segVars == <<segments, seg_i, srt_content, seg_pc>>
cdVars  == <<cd_pc, cd_cues, cd_content, cd_read>>
lgVars  == <<lg_pc, lg_path, lg_language, lg_is_cjk, lg_max_length>>
trVars  == <<tr_pc, tr_max_retries, tr_attempt, tr_log, tr_result, tr_raised>>
scVars  == <<sc_pc, sc_text, sc_max, sc_cjk, sc_st, sc_words, sc_steps, sc_out>>
vars    == <<tcVars, slVars, srtVars, segVars, cdVars, lgVars, trVars, scVars>>

-----------------------------------------------------------------------------
(* Characters and strings *)

Digits == <<"0", "1", "2", "3", "4", "5", "6", "7", "8", "9">>

IsDigit(c) == \E d \in 1..10 : Digits[d] = c

DigitVal(c) == (CHOOSE d \in 1..10 : Digits[d] = c) - 1

Letters == {"a", "b", "c", "d", "e", "f", "g", "h", "i", "j", "k", "l", "m",
            "n", "o", "p", "q", "r", "s", "t", "u", "v", "w", "x", "y", "z",
            "A", "B", "C", "D", "E", "F", "G", "H", "I", "J", "K", "L", "M",
            "N", "O", "P", "Q", "R", "S", "T", "U", "V", "W", "X", "Y", "Z"}

\* str.isascii() and str.isalnum() of one character
IsAsciiAlnum(c) == IsDigit(c) \/ c \in Letters

\* the characters str.strip() and str.split() treat as whitespace
IsSpace(c) == c \in {" ", "\n", "\t", "\r"}

\* text[from:to] with 0-based from (inclusive) and to (exclusive), as Python
Slice(s, from, to) == SubSeq(s, from + 1, to)

\* s.startswith(t)
StartsWith(s, t) == Len(s) >= Len(t) /\ SubSeq(s, 1, Len(t)) = t

RECURSIVE LStrip(_)
LStrip(s) == IF s # <<>> /\ IsSpace(s[1]) THEN LStrip(Tail(s)) ELSE s

RECURSIVE RStrip(_)
RStrip(s) ==
    IF s # <<>> /\ IsSpace(s[Len(s)]) THEN RStrip(SubSeq(s, 1, Len(s) - 1))
    ELSE s

\* s.strip()
Strip(s) == LStrip(RStrip(s))

\* s without its whitespace
RECURSIVE NonSpace(_)
NonSpace(s) ==
    IF s = <<>> THEN <<>>
    ELSE IF IsSpace(s[1]) THEN NonSpace(Tail(s))
    ELSE <<s[1]>> \o NonSpace(Tail(s))

RECURSIVE Flatten(_)
Flatten(ss) == IF ss = <<>> THEN <<>> ELSE ss[1] \o Flatten(Tail(ss))

\* sep.join(ss)
RECURSIVE Join(_, _)
Join(sep, ss) ==
    IF ss = <<>> THEN <<>>
    ELSE IF Len(ss) = 1 THEN ss[1]
    ELSE ss[1] \o sep \o Join(sep, Tail(ss))

-----------------------------------------------------------------------------
(* Timecode codec *)

RECURSIVE NatToStr(_)
NatToStr(n) ==
    IF n < 10 THEN <<Digits[n + 1]>>
    ELSE NatToStr(n \div 10) \o <<Digits[(n % 10) + 1]>>

RECURSIVE ZeroFill(_, _)
ZeroFill(s, width) == IF Len(s) >= width THEN s ELSE ZeroFill(<<"0">> \o s, width)

\* f"{n:0w}": at least w characters, zero-filled after the sign
FormatInt(n, width) ==
    IF n < 0 THEN <<"-">> \o ZeroFill(NatToStr(-n), width - 1)
    ELSE ZeroFill(NatToStr(n), width)

RECURSIVE DigitsToNat(_)
DigitsToNat(s) ==
    IF s = <<>> THEN 0
    ELSE DigitsToNat(SubSeq(s, 1, Len(s) - 1)) * 10 + DigitVal(s[Len(s)])

AllDigits(s) == s # <<>> /\ \A k \in 1..Len(s) : IsDigit(s[k])

\* int(s): surrounding whitespace and one sign are accepted; anything else
\* raises ValueError
ParseInt(s) ==
    LET t == Strip(s)
        signed == t # <<>> /\ t[1] \in {"-", "+"}
        body == IF signed THEN Tail(t) ELSE t
    IN  IF AllDigits(body)
        THEN [ok |-> TRUE,
              val |-> IF signed /\ t[1] = "-" THEN -DigitsToNat(body)
                      ELSE DigitsToNat(body)]
        ELSE [ok |-> FALSE, val |-> 0]

\* re.split('[:|,]', s)
RECURSIVE SplitFields(_, _)
SplitFields(s, field) ==
    IF s = <<>> THEN <<field>>
    ELSE IF s[1] \in {":", "|", ","}
         THEN <<field>> \o SplitFields(Tail(s), <<>>)
         ELSE SplitFields(Tail(s), Append(field, s[1]))

\* A mutant of format_timecode: the millisecond field is the whole offset.
format_timecode_nomod(milliseconds) ==
    LET hours == milliseconds \div 3600000
        minutes == (milliseconds % 3600000) \div 60000
        seconds == (milliseconds % 60000) \div 1000
    IN  FormatInt(hours, 2) \o <<":">> \o FormatInt(minutes, 2) \o <<":">>
        \o FormatInt(seconds, 2) \o <<",">> \o FormatInt(milliseconds, 3)

format_timecode(milliseconds) ==
    LET hours == milliseconds \div 3600000
        minutes == (milliseconds % 3600000) \div 60000
        seconds == (milliseconds % 60000) \div 1000
        ms == milliseconds % 1000
    IN  FormatInt(hours, 2) \o <<":">> \o FormatInt(minutes, 2) \o <<":">>
        \o FormatInt(seconds, 2) \o <<",">> \o FormatInt(ms, 3)

\* The result is [ok, val]; ok = FALSE is the ValueError Python raises when
\* the fields are not four or one of them is not an integer.
parse_timecode(timecode) ==
    LET fields == SplitFields(timecode, <<>>)
        nums == [k \in 1..Len(fields) |-> ParseInt(fields[k])]
    IN  IF Len(fields) = 4 /\ \A k \in 1..4 : nums[k].ok
        THEN [ok |-> TRUE,
              val |-> (nums[1].val * 3600 + nums[2].val * 60 + nums[3].val) * 1000
                      + nums[4].val]
        ELSE [ok |-> FALSE, val |-> 0]

-----------------------------------------------------------------------------
(* split_lines *)

preserved_terms == << <<"P", "h", "o", "t", "o", "r", "o", "o", "m">>, <<"A", "I">> >>

\* text.find(' ', i): the 0-based index of the first space at or after i, or -1
RECURSIVE FindSpace(_, _)
FindSpace(text, i) ==
    IF i >= Len(text) THEN -1
    ELSE IF text[i + 1] = " " THEN i
    ELSE FindSpace(text, i + 1)

\* The first preserved term that text[i:] starts with (the for loop of lines
\* 34-43 breaks at the first match), or 0 when the loop runs to its else.
MatchTerm(text, i) ==
    LET rest == Slice(text, i, Len(text))
        hits == {k \in 1..Len(preserved_terms) : StartsWith(rest, preserved_terms[k])}
    IN  IF hits = {} THEN 0 ELSE CHOOSE k \in hits : \A h \in hits : k <= h

\* The state of the logographic scan: i, current_line and lines are the
\* locals of split_lines.  cur_src, src and units are history fields: for
\* every character of current_line and of each line, the 0-based index in
\* text it was copied from; and for every unit taken (a protected term, a
\* word, a character), in order, the slice text[from:to] it is.
ScanStart == [i |-> 0, current_line |-> <<>>, lines |-> <<>>,
              cur_src |-> <<>>, src |-> <<>>, units |-> <<>>]

Indices(from, to) == [k \in 1..(to - from) |-> from + k - 1]

\* A mutant of FitOrFlush: a unit that does not fit is cut at the budget, its
\* head filling the current line and its tail starting the next one.
FitOrFlush_cut(st, unit, from, to, max_length) ==
    IF Len(st.current_line) + Len(unit) <= max_length
    THEN [st EXCEPT !.current_line = @ \o unit,
                    !.cur_src = @ \o Indices(from, to),
                    !.units = Append(@, <<from, to>>),
                    !.i = to]
    ELSE LET room == IF max_length > Len(st.current_line)
                     THEN max_length - Len(st.current_line) ELSE 0
         IN  [st EXCEPT !.lines = Append(@, st.current_line \o SubSeq(unit, 1, room)),
                        !.src = Append(@, st.cur_src \o Indices(from, from + room)),
                        !.current_line = SubSeq(unit, room + 1, Len(unit)),
                        !.cur_src = Indices(from + room, to),
                        !.units = Append(@, <<from, to>>),
                        !.i = to]

\* A mutant of FitOrFlush: a unit that fills the line to the budget exactly
\* does not fit.
FitOrFlush_short(st, unit, from, to, max_length) ==
    IF Len(st.current_line) + Len(unit) < max_length
    THEN [st EXCEPT !.current_line = @ \o unit,
                    !.cur_src = @ \o Indices(from, to),
                    !.units = Append(@, <<from, to>>),
                    !.i = to]
    ELSE [st EXCEPT !.lines = Append(@, st.current_line),
                    !.src = Append(@, st.cur_src),
                    !.current_line = unit,
                    !.cur_src = Indices(from, to),
                    !.units = Append(@, <<from, to>>),
                    !.i = to]

\* A mutant of FitOrFlush: after a flush the scan stays where it is.
FitOrFlush_stall(st, unit, from, to, max_length) ==
    IF Len(st.current_line) + Len(unit) <= max_length
    THEN [st EXCEPT !.current_line = @ \o unit,
                    !.cur_src = @ \o Indices(from, to),
                    !.units = Append(@, <<from, to>>),
                    !.i = to]
    ELSE [st EXCEPT !.lines = Append(@, st.current_line),
                    !.src = Append(@, st.cur_src),
                    !.current_line = <<>>,
                    !.cur_src = <<>>]

\* Lines 36-42, 51-57 and 60-65: the unit text[from:to] joins the current
\* line when it fits; otherwise the current line is flushed and the unit
\* starts the next one.  Either way the scan moves to `to`.
FitOrFlush(st, unit, from, to, max_length) ==
    IF Len(st.current_line) + Len(unit) <= max_length
    THEN [st EXCEPT !.current_line = @ \o unit,
                    !.cur_src = @ \o Indices(from, to),
                    !.units = Append(@, <<from, to>>),
                    !.i = to]
    ELSE [st EXCEPT !.lines = Append(@, st.current_line),
                    !.src = Append(@, st.cur_src),
                    !.current_line = unit,
                    !.cur_src = Indices(from, to),
                    !.units = Append(@, <<from, to>>),
                    !.i = to]

\* Lines 67-69
SkipSpace(text, st) ==
    IF st.i < Len(text) /\ text[st.i + 1] = " " THEN [st EXCEPT !.i = @ + 1] ELSE st

\* One iteration of the while loop of lines 32-69
CjkStep(text, max_length, st) ==
    LET i == st.i
        t == MatchTerm(text, i)
    IN  IF t # 0
        THEN SkipSpace(text, FitOrFlush(st, preserved_terms[t], i,
                                        i + Len(preserved_terms[t]), max_length))
        ELSE IF IsAsciiAlnum(text[i + 1])
        THEN LET found == FindSpace(text, i)
                 word_end == IF found = -1 THEN Len(text) ELSE found
             IN  SkipSpace(text, FitOrFlush(st, Slice(text, i, word_end), i,
                                            word_end, max_length))
        ELSE SkipSpace(text, FitOrFlush(st, <<text[i + 1]>>, i, i + 1, max_length))

RECURSIVE CjkLoop(_, _, _)
CjkLoop(text, max_length, st) ==
    IF st.i < Len(text) THEN CjkLoop(text, max_length, CjkStep(text, max_length, st))
    ELSE st

\* A mutant of FlushLast: the residual line is not appended.
FlushLast_dropped(st) == st

\* Lines 71-72 and 81-82: the residual line is kept when it is not empty
FlushLast(st) ==
    IF st.current_line # <<>>
    THEN [st EXCEPT !.lines = Append(@, st.current_line),
                    !.src = Append(@, st.cur_src)]
    ELSE st

CjkScan(text, max_length) == FlushLast(CjkLoop(text, max_length, ScanStart))

\* text.split(): the maximal runs of non-whitespace characters
RECURSIVE SplitWords(_, _)
SplitWords(s, word) ==
    LET done == IF word = <<>> THEN <<>> ELSE <<word>>
    IN  IF s = <<>> THEN done
        ELSE IF IsSpace(s[1]) THEN done \o SplitWords(Tail(s), <<>>)
        ELSE SplitWords(Tail(s), Append(word, s[1]))

\* A mutant of WrapWord: the separating space is not counted.
WrapWord_nospace(st, word, max_length) ==
    IF Len(st.current_line) + Len(word) <= max_length
    THEN [st EXCEPT !.current_line =
                        IF @ # <<>> THEN @ \o <<" ">> \o word ELSE word]
    ELSE [st EXCEPT !.lines = Append(@, st.current_line),
                    !.current_line = word]

\* One iteration of the for loop of lines 75-80
WrapWord(st, word, max_length) ==
    IF Len(st.current_line) + (Len(word) + 1) <= max_length
    THEN [st EXCEPT !.current_line =
                        IF @ # <<>> THEN @ \o <<" ">> \o word ELSE word]
    ELSE [st EXCEPT !.lines = Append(@, st.current_line),
                    !.current_line = word]

RECURSIVE WrapLoop(_, _, _)
WrapLoop(words, max_length, st) ==
    IF words = <<>> THEN st
    ELSE WrapLoop(Tail(words), max_length, WrapWord(st, words[1], max_length))

split_lines(text, max_length, is_cjk) ==
    IF is_cjk THEN CjkScan(text, max_length).lines
    ELSE FlushLast(WrapLoop(SplitWords(text, <<>>), max_length, ScanStart)).lines

-----------------------------------------------------------------------------
(* process_srt *)

\* A mutant of max_lengths: HK has no entry.
max_lengths_nohk == [l \in {"CN", "JP", "KR"} |-> 16]

max_lengths == [l \in {"CN", "JP", "KR", "HK"} |-> 16]

\* sub in s
Contains(s, sub) ==
    \E p \in 0..(Len(s) - Len(sub)) : Slice(s, p, p + Len(sub)) = sub

\* Lines 88-101: the language tag of the file, the first of _JP, _CN, _KR,
\* _HK found in the path, and EN otherwise
language(path) ==
    IF Contains(path, <<"_", "J", "P">>) THEN "JP"
    ELSE IF Contains(path, <<"_", "C", "N">>) THEN "CN"
    ELSE IF Contains(path, <<"_", "K", "R">>) THEN "KR"
    ELSE IF Contains(path, <<"_", "H", "K">>) THEN "HK"
    ELSE "EN"

is_cjk(path) == language(path) # "EN"

\* Line 103: max_lengths.get(language, 24)
max_length(path) ==
    IF language(path) \in DOMAIN max_lengths THEN max_lengths[language(path)] ELSE 24

\* (piece + s).split(sep) for a non-empty separator that does not start in
\* piece: s is cut at the leftmost occurrence of sep, then the rest is split
RECURSIVE SplitOn(_, _, _)
SplitOn(s, sep, piece) ==
    LET found == {p \in 1..(Len(s) - Len(sep) + 1) : SubSeq(s, p, p + Len(sep) - 1) = sep}
    IN  IF found = {} THEN <<piece \o s>>
        ELSE LET p == CHOOSE q \in found : \A r \in found : q <= r
             IN  <<piece \o SubSeq(s, 1, p - 1)>>
                 \o SplitOn(SubSeq(s, p + Len(sep), Len(s)), sep, <<>>)

\* the characters of the class [.,。!?！？]
TrailingPunct == {".", ",", "U+3002", "!", "?", "U+FF01", "U+FF1F"}

\* A mutant of StripPunct: the last character is removed whatever it is.
StripPunct_any(s) == IF s = <<>> THEN s ELSE SubSeq(s, 1, Len(s) - 1)

\* re.sub(r'[.,。!?！？]$', '', s): $ matches at the end of s and before a
\* newline that ends s
StripPunct(s) ==
    LET n == Len(s)
    IN  IF n >= 1 /\ s[n] \in TrailingPunct THEN SubSeq(s, 1, n - 1)
        ELSE IF n >= 2 /\ s[n] = "\n" /\ s[n - 1] \in TrailingPunct
        THEN SubSeq(s, 1, n - 2) \o <<"\n">>
        ELSE s

Arrow == <<" ", "-", "-", ">", " ">>

\* Lines 113-116 and 123-125: what process_srt reads from one entry.  exc is
\* the exception the entry makes these lines raise ("" when none).
ParseEntry(entry) ==
    LET parts == SplitOn(entry, <<"\n">>, <<>>)
        none == [exc |-> "", index |-> <<>>, text |-> <<>>, start_ms |-> 0, end_ms |-> 0]
    IN  IF Len(parts) < 2 THEN [none EXCEPT !.exc = "IndexError"]
        ELSE
        LET times == SplitOn(parts[2], Arrow, <<>>)
            text == Join(<<" ">>, SubSeq(parts, 3, Len(parts)))
            read == [none EXCEPT !.index = parts[1], !.text = text]
        IN  IF Len(times) # 2 THEN [read EXCEPT !.exc = "ValueError"]
            ELSE IF ~parse_timecode(times[1]).ok \/ ~parse_timecode(times[2]).ok
            THEN [read EXCEPT !.exc = "ValueError"]
            ELSE [read EXCEPT !.start_ms = parse_timecode(times[1]).val,
                              !.end_ms = parse_timecode(times[2]).val]

\* Lines 119-121: the display lines of a cue text
CueLines(text, path) ==
    split_lines(StripPunct(Strip(text)), max_length(path), is_cjk(path))

\* A mutant of SubCue: the offset of the cue is left out of the start time.
SubCue_nostart(number, start_ms, increment, i, line) ==
    NatToStr(number) \o <<"\n">>
    \o format_timecode(i * increment) \o Arrow
    \o format_timecode(start_ms + (i + 1) * increment)
    \o <<"\n">> \o StripPunct(Strip(line))

\* A mutant of SubCue: every entry ends 1 ms after the next one starts.
SubCue_overrun(number, start_ms, increment, i, line) ==
    NatToStr(number) \o <<"\n">>
    \o format_timecode(start_ms + i * increment) \o Arrow
    \o format_timecode(start_ms + (i + 1) * increment + 1)
    \o <<"\n">> \o StripPunct(Strip(line))

\* Lines 131-134: the entry written for line i (0-based) of a cue
SubCue(number, start_ms, increment, i, line) ==
    NatToStr(number) \o <<"\n">>
    \o format_timecode(start_ms + i * increment) \o Arrow
    \o format_timecode(start_ms + (i + 1) * increment)
    \o <<"\n">> \o StripPunct(Strip(line))

\* A mutant of ProcessEntry: the entries of every cue are numbered from 1.
ProcessEntry_restart(entry, count, path) ==
    LET cue == ParseEntry(entry)
        lines == CueLines(cue.text, path)
        num_lines == Len(lines)
    IN  IF cue.exc # "" THEN [exc |-> cue.exc, out |-> <<>>]
        ELSE IF num_lines = 0 THEN [exc |-> "ZeroDivisionError", out |-> <<>>]
        ELSE LET increment == (cue.end_ms - cue.start_ms) \div num_lines
             IN  [exc |-> "",
                  out |-> [i \in 1..num_lines |->
                              SubCue(i, cue.start_ms, increment, i - 1, lines[i])]]

\* A mutant of ProcessEntry: the increment is rounded up.
ProcessEntry_ceil(entry, count, path) ==
    LET cue == ParseEntry(entry)
        lines == CueLines(cue.text, path)
        num_lines == Len(lines)
    IN  IF cue.exc # "" THEN [exc |-> cue.exc, out |-> <<>>]
        ELSE IF num_lines = 0 THEN [exc |-> "ZeroDivisionError", out |-> <<>>]
        ELSE LET increment == (cue.end_ms - cue.start_ms + num_lines - 1) \div num_lines
             IN  [exc |-> "",
                  out |-> [i \in 1..num_lines |->
                              SubCue(count + i, cue.start_ms, increment, i - 1, lines[i])]]

\* Lines 113-136 for one entry that is not blank, with `count` entries
\* written so far: the exception raised ("" when none) and the entries added.
ProcessEntry(entry, count, path) ==
    LET cue == ParseEntry(entry)
        lines == CueLines(cue.text, path)
        num_lines == Len(lines)
    IN  IF cue.exc # "" THEN [exc |-> cue.exc, out |-> <<>>]
        ELSE IF num_lines = 0 THEN [exc |-> "ZeroDivisionError", out |-> <<>>]
        ELSE LET increment == (cue.end_ms - cue.start_ms) \div num_lines
             IN  [exc |-> "",
                  out |-> [i \in 1..num_lines |->
                              SubCue(count + i, cue.start_ms, increment, i - 1, lines[i])]]

\* Lines 134-136: an entry of new_entries
SrtEntry(cue) ==
    NatToStr(cue.index) \o <<"\n">>
    \o format_timecode(cue.start_ms) \o Arrow \o format_timecode(cue.end_ms)
    \o <<"\n">> \o cue.text

\* Line 141: the content written to the _split file
JoinEntries(es) == Join(<<"\n", "\n">>, es)

\* Lines 108-125 over the entries of a file: the cues read, in order, up to
\* the first entry that raises (exc is "" when none does)
RECURSIVE ReadEntries(_)
ReadEntries(es) ==
    IF es = <<>> THEN [exc |-> "", cues |-> <<>>]
    ELSE IF Strip(es[1]) = <<>> THEN ReadEntries(Tail(es))
    ELSE LET cue == ParseEntry(es[1])
         IN  IF cue.exc # "" THEN [exc |-> cue.exc, cues |-> <<>>]
             ELSE LET rest == ReadEntries(Tail(es))
                  IN  [exc |-> rest.exc, cues |-> <<cue>> \o rest.cues]

\* Line 108 and the reading of every entry
ReadContent(content) == ReadEntries(SplitOn(content, <<"\n", "\n">>, <<>>))

-----------------------------------------------------------------------------
(* The floats of save_transcript_and_create_srt.  A Python float is an IEEE *)
(* 754 binary64: 53 significant bits, every operation rounded to the        *)
(* nearest such number, ties to the one with an even last bit.  A float x   *)
(* with 0 <= x < 2^36 that is a multiple of 2^-84 (every float of at least  *)
(* 2^-32 is) is held as the natural number x * 2^84, written in base 4096   *)
(* with the least significant digit first.                                  *)

DigitBits == 12

Base == 2 ^ DigitBits

NumDigits == 10

FracDigits == 7

Zero == [i \in 1..NumDigits |-> 0]

\* a + b, a - b (for a >= b) and a * n, exactly
ExactAdd(a, b) ==
    LET carry[i \in 0..NumDigits] ==
            IF i = 0 THEN 0 ELSE (a[i] + b[i] + carry[i - 1]) \div Base
    IN  [i \in 1..NumDigits |-> (a[i] + b[i] + carry[i - 1]) % Base]

ExactSub(a, b) ==
    LET borrow[i \in 0..NumDigits] ==
            IF i = 0 THEN 0
            ELSE IF a[i] - b[i] - borrow[i - 1] < 0 THEN 1 ELSE 0
    IN  [i \in 1..NumDigits |-> (Base + a[i] - b[i] - borrow[i - 1]) % Base]

ExactMul(a, n) ==
    LET carry[i \in 0..NumDigits] ==
            IF i = 0 THEN 0 ELSE (a[i] * n + carry[i - 1]) \div Base
    IN  [i \in 1..NumDigits |-> (a[i] * n + carry[i - 1]) % Base]

\* a / n cut to a multiple of 2^-84, and whether anything was cut off
ExactDiv(a, n) ==
    LET rem[i \in 1..(NumDigits + 1)] ==
            IF i = NumDigits + 1 THEN 0 ELSE (rem[i + 1] * Base + a[i]) % n
    IN  [quot |-> [i \in 1..NumDigits |-> (rem[i + 1] * Base + a[i]) \div n],
         cut |-> rem[1] # 0]

\* bit j of a, bit 0 being the lowest
Bit(a, j) == (a[(j \div DigitBits) + 1] \div (2 ^ (j % DigitBits))) % 2

\* the position of the highest bit of a # Zero
TopBit(a) ==
    LET d == CHOOSE i \in 1..NumDigits :
                 a[i] # 0 /\ \A k \in (i + 1)..NumDigits : a[k] = 0
        b == CHOOSE j \in 0..(DigitBits - 1) :
                 a[d] \div (2 ^ j) = 1
    IN  (d - 1) * DigitBits + b

\* a with the bits below position s cleared
ClearLow(a, s) ==
    [i \in 1..NumDigits |->
        LET lo == (i - 1) * DigitBits
        IN  IF lo + DigitBits <= s THEN 0
            ELSE IF lo >= s THEN a[i]
            ELSE a[i] - (a[i] % (2 ^ (s - lo)))]

\* a has a bit set below position s
AnyLow(a, s) == ClearLow(a, s) # a

Pow2(s) == [i \in 1..NumDigits |-> IF i = (s \div DigitBits) + 1 THEN 2 ^ (s % DigitBits) ELSE 0]

\* The float nearest to the exact value a (plus a little, when cut): the 53
\* highest bits are kept and the rest rounds to nearest, ties to even.
RoundFloat(a, cut) ==
    IF a = Zero THEN Zero
    ELSE LET s == TopBit(a) - 52
         IN  IF s <= 0 THEN a
             ELSE IF Bit(a, s - 1) = 1 /\ (cut \/ AnyLow(a, s - 1) \/ Bit(a, s) = 1)
             THEN ExactAdd(ClearLow(a, s), Pow2(s))
             ELSE ClearLow(a, s)

\* float(n) of a natural number n < 2^31
FromInt(n) ==
    [i \in 1..NumDigits |->
        IF i <= FracDigits THEN 0 ELSE (n \div (Base ^ (i - FracDigits - 1))) % Base]

\* int(x)
Floor(x) == x[FracDigits + 1] + Base * x[FracDigits + 2] + Base * Base * x[FracDigits + 3]

\* x - int(x), which is exact
FracPart(x) == [i \in 1..NumDigits |-> IF i <= FracDigits THEN x[i] ELSE 0]

\* x + y, x - y, x * n and x / n as Python computes them on floats
FloatAdd(x, y) == RoundFloat(ExactAdd(x, y), FALSE)

FloatSub(x, y) == RoundFloat(ExactSub(x, y), FALSE)

FloatMul(x, n) == RoundFloat(ExactMul(x, n), FALSE)

FloatDiv(x, n) == RoundFloat(ExactDiv(x, n).quot, ExactDiv(x, n).cut)

\* The float that the decimal ms/1000 of a transcript is read as
Seconds(ms) == FloatDiv(FromInt(ms), 1000)

-----------------------------------------------------------------------------
(* save_transcript_and_create_srt.  The start and end of a segment are      *)
(* given in milliseconds; the program holds them as the floats Seconds(ms). *)

\* Lines 155-160.  // and % of floats are exact, so hours, minutes and
\* int(seconds) are those of int(seconds); the product by 1000 is rounded.
format_time(seconds) ==
    LET whole == Floor(seconds)
        hours == whole \div 3600
        minutes == (whole % 3600) \div 60
        secs == whole % 60
        milliseconds == Floor(FloatMul(FracPart(seconds), 1000))
    IN  FormatInt(hours, 2) \o <<":">> \o FormatInt(minutes, 2) \o <<":">>
        \o FormatInt(secs, 2) \o <<",">> \o FormatInt(milliseconds, 3)

\* the characters of the class [.!?。！？]
SentenceEnd == {".", "!", "?", "U+3002", "U+FF01", "U+FF1F"}

\* Lines 190-192: re.split(r'([.!?。！？])', text) with every piece joined
\* to the delimiter that follows it (the last piece to '')
RECURSIVE SplitSentences(_, _)
SplitSentences(s, piece) ==
    IF s = <<>> THEN <<piece>>
    ELSE IF s[1] \in SentenceEnd
         THEN <<Append(piece, s[1])>> \o SplitSentences(Tail(s), <<>>)
         ELSE SplitSentences(Tail(s), Append(piece, s[1]))

\* Line 193: [s.strip() for s in sentences if s.strip()]
RECURSIVE StripAndDropEmpty(_)
StripAndDropEmpty(ss) ==
    IF ss = <<>> THEN <<>>
    ELSE IF Strip(ss[1]) = <<>> THEN StripAndDropEmpty(Tail(ss))
    ELSE <<Strip(ss[1])>> \o StripAndDropEmpty(Tail(ss))

\* Lines 188-193
Sentences(text) == StripAndDropEmpty(SplitSentences(Strip(text), <<>>))

\* One cue as lines 205 and 209 write it
SrtCue(number, start, end, text) ==
    NatToStr(number) \o <<"\n">> \o start \o Arrow \o end \o <<"\n">> \o text
    \o <<"\n", "\n">>

\* Lines 195-205: the cues of a segment of several sentences; i is the
\* 0-based index of the segment
SentenceCues(i, segment, sentences) ==
    LET n == Len(sentences)
        duration == FloatSub(Seconds(segment.end), Seconds(segment.start))
        time_per_sentence == FloatDiv(duration, n)
        sent_start(j) == FloatAdd(Seconds(segment.start), FloatMul(time_per_sentence, j))
        sent_end(j) == FloatAdd(sent_start(j), time_per_sentence)
    IN  Flatten([j \in 1..n |->
            SrtCue(i + (j - 1) + 1, format_time(sent_start(j - 1)),
                   format_time(sent_end(j - 1)), StripPunct(Strip(sentences[j])))])

\* Lines 186-209: what the segment with 0-based index i adds to srt_content
SegmentCues(i, segment) ==
    LET text == Strip(segment.text)
        sentences == Sentences(segment.text)
    IN  IF Len(sentences) > 1 THEN SentenceCues(i, segment, sentences)
        ELSE SrtCue(i + 1, format_time(Seconds(segment.start)),
                    format_time(Seconds(segment.end)), StripPunct(Strip(text)))

-----------------------------------------------------------------------------
(* translate_text (src/0_OpenAI_Translations.py, lines 112-159) *)

\* Line 112: the default of retry_delay
retry_delay == 2

\* What one call of client.chat.completions.create (lines 125-133) comes
\* to: an exception, or a message whose content is None or a string
Responses ==
    { [kind |-> "raise", content |-> <<>>],
      [kind |-> "none", content |-> <<>>],
      [kind |-> "content", content |-> <<>>],
      [kind |-> "content", content |-> <<" ", "\n">>],
      [kind |-> "content", content |-> <<"H", "o", "l", "a">>],
      [kind |-> "content", content |-> <<" ", "H", "o", "l", "a", "\n">>] }

\* Line 135: response.choices[0].message.content.strip()
Translation(response) == Strip(response.content)

\* The try block of lines 117-144 is left by an exception, which line 146
\* catches: create raised, the content is None (None has no strip():
\* AttributeError), or the translation is empty (TranslationError, lines
\* 138-139)
Failed(response) ==
    response.kind # "content" \/ Strip(Translation(response)) = <<>>

\* A mutant of WaitsAfter: the wait follows the last attempt too.
WaitsAfter_always(attempt, max_retries) == TRUE

\* Line 151: if attempt < max_retries - 1
WaitsAfter(attempt, max_retries) == attempt < max_retries - 1

\* Line 152
wait_time(attempt) == retry_delay * (attempt + 1)

\* The events of a run, in order: API calls with what they came to, and
\* calls of time.sleep with their seconds
ApiCall(response) == [ev |-> "call", response |-> response, seconds |-> 0]

Sleep(seconds) ==
    [ev |-> "sleep", response |-> [kind |-> "", content |-> <<>>], seconds |-> seconds]

None == [none |-> TRUE, text |-> <<>>]

Returned(translation) == [none |-> FALSE, text |-> translation]

-----------------------------------------------------------------------------
(* The parts of the state a specification does not use stay as they start *)

TcIdle == tc_pc = "idle" /\ tc_ms = 0 /\ tc_text = <<>> /\ tc_back = [ok |-> FALSE, val |-> 0]

SlIdle ==
    /\ sl_pc = "idle" /\ sl_text = <<>> /\ sl_max = 0 /\ sl_cjk = FALSE
    /\ sl_out = <<>> /\ sl_src = <<>> /\ sl_units = <<>>

SrtIdle ==
    /\ file_path = <<>> /\ entries = <<>> /\ pos = 0 /\ new_entries = <<>>
    /\ origin = <<>> /\ raised = "" /\ new_file = [exists |-> FALSE, content |-> <<>>]
    /\ original = "absent" /\ in_cues = <<>> /\ out_cues = <<>>

SegIdle == segments = <<>> /\ seg_i = 0 /\ srt_content = <<>> /\ seg_pc = "idle"

CdIdle ==
    /\ cd_pc = "idle" /\ cd_cues = <<>> /\ cd_content = <<>>
    /\ cd_read = [exc |-> "", cues |-> <<>>]

LgIdle ==
    /\ lg_pc = "idle" /\ lg_path = <<>> /\ lg_language = "" /\ lg_is_cjk = FALSE
    /\ lg_max_length = 0

TrIdle ==
    /\ tr_pc = "idle" /\ tr_max_retries = 0 /\ tr_attempt = 0 /\ tr_log = <<>>
    /\ tr_result = None /\ tr_raised = ""

ScIdle ==
    /\ sc_pc = "idle" /\ sc_text = <<>> /\ sc_max = 0 /\ sc_cjk = FALSE
    /\ sc_st = ScanStart /\ sc_words = <<>> /\ sc_steps = 0 /\ sc_out = <<>>

-----------------------------------------------------------------------------
(* The timecode round trip: format_timecode, then parse_timecode *)

TcHours   == {0, 1, 10, 99, 100}
TcMinutes == {0, 9, 59}
TcSeconds == {0, 10, 59}
TcMillis  == {0, 5, 99, 100, 999}

TcInputs ==
    {((h * 60 + m) * 60 + sec) * 1000 + f :
        h \in TcHours, m \in TcMinutes, sec \in TcSeconds, f \in TcMillis}

InitTc ==
    /\ tc_pc = "format" /\ tc_ms \in TcInputs /\ tc_text = <<>>
    /\ tc_back = [ok |-> FALSE, val |-> 0]
    /\ SlIdle /\ SrtIdle /\ SegIdle /\ CdIdle /\ LgIdle /\ TrIdle /\ ScIdle

FormatTimecode ==
    /\ tc_pc = "format"
    /\ tc_text' = format_timecode(tc_ms)
    /\ tc_pc' = "parse"
    /\ UNCHANGED <<tc_ms, tc_back, slVars, srtVars, segVars, cdVars, lgVars, trVars, scVars>>

ParseTimecode ==
    /\ tc_pc = "parse"
    /\ tc_back' = parse_timecode(tc_text)
    /\ tc_pc' = "done"
    /\ UNCHANGED <<tc_ms, tc_text, slVars, srtVars, segVars, cdVars, lgVars, trVars, scVars>>

NextTc == FormatTimecode \/ ParseTimecode

SpecTc == InitTc /\ [][NextTc]_vars

-----------------------------------------------------------------------------
(* One call of split_lines on a bounded text *)

MaxFrags == 3

Ideograph == "U+4E2D"

Fragments ==
    { preserved_terms[1], preserved_terms[2], <<"P", "h", "o", "t", "o">>,
      <<"a", "b">>, <<"A">>, <<Ideograph>>, <<" ">>, <<"!">>,
      [k \in 1..10 |-> Ideograph] }

SplitTexts == UNION {{Flatten(f) : f \in [1..n -> Fragments]} : n \in 0..MaxFrags}

SplitBudgets == {1, 2, 3, 10, 16}

InitSplit ==
    /\ sl_pc = "call" /\ sl_text \in SplitTexts /\ sl_max \in SplitBudgets
    /\ sl_cjk \in BOOLEAN /\ sl_out = <<>> /\ sl_src = <<>> /\ sl_units = <<>>
    /\ TcIdle /\ SrtIdle /\ SegIdle /\ CdIdle /\ LgIdle /\ TrIdle /\ ScIdle

SplitLogographic ==
    /\ sl_pc = "call" /\ sl_cjk
    /\ sl_out' = split_lines(sl_text, sl_max, TRUE)
    /\ sl_src' = CjkScan(sl_text, sl_max).src
    /\ sl_units' = CjkScan(sl_text, sl_max).units
    /\ sl_pc' = "returned"
    /\ UNCHANGED <<sl_text, sl_max, sl_cjk, tcVars, srtVars, segVars, cdVars, lgVars, trVars, scVars>>

SplitByWords ==
    /\ sl_pc = "call" /\ ~sl_cjk
    /\ sl_out' = split_lines(sl_text, sl_max, FALSE)
    /\ sl_pc' = "returned"
    /\ UNCHANGED <<sl_text, sl_max, sl_cjk, sl_src, sl_units, tcVars, srtVars, segVars, cdVars, lgVars, trVars, scVars>>

NextSplit == SplitLogographic \/ SplitByWords

SpecSplit == InitSplit /\ [][NextSplit]_vars

-----------------------------------------------------------------------------
(* One run of process_srt over a bounded subtitle file.  entries is          *)
(* content.split('\n\n'); pos counts the entries the loop of line 110 has   *)
(* gone through; origin is a history variable giving, for each entry of     *)
(* new_entries, the 1-based position of the input entry it was made from.   *)
(* in_cues and out_cues are history variables too: what ParseEntry reads    *)
(* from each entry of the file and from each entry of new_entries.          *)

MaxEntries == 2

Photoroom == preserved_terms[1]

\* 'Photoroom Photoroom, Photoroom.'
Photoroom3 ==
    Photoroom \o <<" ">> \o Photoroom \o <<",", " ">> \o Photoroom \o <<".">>

HelloWorld == <<"H", "e", "l", "l", "o", "\n", "w", "o", "r", "l", "d">>

\* 'PhotoroomPhotoroomabcdef': one word of 24 characters
Word24 == Photoroom \o Photoroom \o <<"a", "b", "c", "d", "e", "f">>

Cue(index, start, end) == index \o <<"\n">> \o format_timecode(start) \o Arrow \o format_timecode(end)

\* Cues of 1 s, 1.5 s and 2 ms, and one whose end precedes its start; texts
\* of zero lines ("." and none), of one line (also given on two lines of the
\* entry, ending in two punctuation characters, or one word as long as the
\* budget of 24), and of two (EN) or three (JP) lines.
WellFormedEntries ==
    { Cue(<<"1">>, 1000, 2000) \o <<"\n", ".">>,
      Cue(<<"1">>, 1000, 2000) \o <<"\n", "H", "i", "!">>,
      Cue(<<"1">>, 1000, 2000) \o <<"\n", "H", "i", "?", "!">>,
      Cue(<<"1">>, 1000, 2000) \o <<"\n">> \o Word24,
      Cue(<<"1">>, 1000, 2000) \o <<"\n">> \o Photoroom3,
      Cue(<<"1">>, 1000, 2000),
      Cue(<<"2">>, 3000, 4500) \o <<"\n">> \o HelloWorld,
      Cue(<<"2">>, 3000, 4500) \o <<"\n">> \o Photoroom3,
      Cue(<<"7">>, 0, 2) \o <<"\n">> \o Photoroom3,
      Cue(<<"3">>, 2000, 1000) \o <<"\n">> \o Photoroom3 }

MalformedEntries ==
    { <<"5">>,
      <<"5", "\n">> \o format_timecode(1000) \o <<" ">> \o format_timecode(2000)
          \o <<"\n", "H", "i">>,
      <<"5", "\n", "0", "0", ":", "0", "0", ":", "x", "x", ",", "0", "0", "0">>
          \o Arrow \o format_timecode(2000) \o <<"\n", "H", "i">> }

\* an empty file is the single entry '' (''.split('\n\n') is [''])
BlankEntries == { <<>>, <<" ">> }

SrtEntries == WellFormedEntries \cup MalformedEntries \cup BlankEntries

FilePaths ==
    { <<"a", "d", "_", "E", "N", ".", "s", "r", "t">>,
      <<"a", "d", "_", "J", "P", ".", "s", "r", "t">> }

InitSrt ==
    /\ file_path \in FilePaths
    /\ entries \in UNION {[1..n -> SrtEntries] : n \in 1..MaxEntries}
    /\ pos = 0 /\ new_entries = <<>> /\ origin = <<>> /\ raised = ""
    /\ new_file = [exists |-> FALSE, content |-> <<>>]
    /\ original = "present"
    /\ in_cues = [p \in 1..Len(entries) |-> ParseEntry(entries[p])]
    /\ out_cues = <<>>
    /\ TcIdle /\ SlIdle /\ SegIdle /\ CdIdle /\ LgIdle /\ TrIdle /\ ScIdle

Running == raised = "" /\ ~new_file.exists

\* Lines 111-112
SkipBlankEntry ==
    /\ Running /\ pos < Len(entries)
    /\ Strip(entries[pos + 1]) = <<>>
    /\ pos' = pos + 1
    /\ UNCHANGED <<file_path, entries, new_entries, origin, raised, new_file,
                   original, in_cues, out_cues, tcVars, slVars, segVars, cdVars, lgVars, trVars, scVars>>

\* Lines 113-136, completed
ResplitEntry ==
    /\ Running /\ pos < Len(entries)
    /\ Strip(entries[pos + 1]) # <<>>
    /\ LET r == ProcessEntry(entries[pos + 1], Len(new_entries), file_path)
       IN  /\ r.exc = ""
           /\ new_entries' = new_entries \o r.out
           /\ origin' = origin \o [i \in 1..Len(r.out) |-> pos + 1]
           /\ out_cues' = out_cues \o [i \in 1..Len(r.out) |-> ParseEntry(r.out[i])]
    /\ pos' = pos + 1
    /\ UNCHANGED <<file_path, entries, raised, new_file, original, in_cues,
                   tcVars, slVars, segVars, cdVars, lgVars, trVars, scVars>>

\* Lines 113-136, left by an exception, which no caller of process_srt
\* catches (lines 287 and 297)
RaiseOnEntry ==
    /\ Running /\ pos < Len(entries)
    /\ Strip(entries[pos + 1]) # <<>>
    /\ LET r == ProcessEntry(entries[pos + 1], Len(new_entries), file_path)
       IN  /\ r.exc # ""
           /\ raised' = r.exc
    /\ UNCHANGED <<file_path, entries, pos, new_entries, origin, new_file,
                   original, in_cues, out_cues, tcVars, slVars, segVars, cdVars, lgVars, trVars, scVars>>

\* Lines 139-149: the _split file is written and the original removed (or,
\* when os.remove fails, left in place with a message)
WriteSplitFile ==
    /\ Running /\ pos = Len(entries)
    /\ new_file' = [exists |-> TRUE, content |-> JoinEntries(new_entries)]
    /\ original' \in {"removed", "present"}
    /\ UNCHANGED <<file_path, entries, pos, new_entries, origin, raised,
                   in_cues, out_cues, tcVars, slVars, segVars, cdVars, lgVars, trVars, scVars>>

Next == SkipBlankEntry \/ ResplitEntry \/ RaiseOnEntry \/ WriteSplitFile

Spec == InitSrt /\ [][Next]_vars

-----------------------------------------------------------------------------
(* One run of save_transcript_and_create_srt over a bounded transcript.     *)
(* seg_i counts the segments the loop of line 185 has gone through.         *)

MaxSegments == 2

SegmentTexts ==
    { <<>>,
      <<" ", " ">>,
      <<"H", "i">>,
      <<"H", "i", ",">>,
      <<"H", "i", ".", " ", "O", "k", "?", " ", "N", "o">>,
      <<" ", "O", "k", "!", "!">> }

SegmentTimes == { <<0, 4000>>, <<100, 6400>> }

Segments ==
    {[start |-> t[1], end |-> t[2], text |-> x] : t \in SegmentTimes, x \in SegmentTexts}

InitSeg ==
    /\ segments \in UNION {[1..n -> Segments] : n \in 0..MaxSegments}
    /\ seg_i = 0 /\ srt_content = <<>> /\ seg_pc = "loop"
    /\ TcIdle /\ SlIdle /\ SrtIdle /\ CdIdle /\ LgIdle /\ TrIdle /\ ScIdle

\* Lines 185-209, one iteration
EmitSegment ==
    /\ seg_pc = "loop" /\ seg_i < Len(segments)
    /\ srt_content' = srt_content \o SegmentCues(seg_i, segments[seg_i + 1])
    /\ seg_i' = seg_i + 1
    /\ UNCHANGED <<segments, seg_pc, tcVars, slVars, srtVars, cdVars, lgVars, trVars, scVars>>

\* Lines 211-216
WriteSrtFile ==
    /\ seg_pc = "loop" /\ seg_i = Len(segments)
    /\ seg_pc' = "written"
    /\ UNCHANGED <<segments, seg_i, srt_content, tcVars, slVars, srtVars, cdVars, lgVars, trVars, scVars>>

NextSeg == EmitSegment \/ WriteSrtFile

SpecSeg == InitSeg /\ [][NextSeg]_vars

-----------------------------------------------------------------------------
(* A cue list written in the format of the program and read back by the     *)
(* parser of process_srt.  cd_cues is the cue list, cd_content the text     *)
(* written, cd_read what lines 108-125 read from it.                        *)

MaxCues == 2

CodecTimes == { <<0, 1000>>, <<1000, 2500>> }

CodecTexts == { <<"H", "i">>, HelloWorld, <<>> }

\* the cue lists of n cues, numbered 1..n
CueLists(n) ==
    {[k \in 1..n |-> [index |-> k, start_ms |-> f[k][1][1], end_ms |-> f[k][1][2],
                      text |-> f[k][2]]] :
        f \in [1..n -> CodecTimes \X CodecTexts]}

InitCodec ==
    /\ cd_pc = "write"
    /\ cd_cues \in UNION {CueLists(n) : n \in 0..MaxCues}
    /\ cd_content = <<>> /\ cd_read = [exc |-> "", cues |-> <<>>]
    /\ TcIdle /\ SlIdle /\ SrtIdle /\ SegIdle /\ LgIdle /\ TrIdle /\ ScIdle

\* Lines 134-141: the cues written as process_srt writes its output
WriteJoined ==
    /\ cd_pc = "write"
    /\ cd_content' = JoinEntries([k \in 1..Len(cd_cues) |-> SrtEntry(cd_cues[k])])
    /\ cd_pc' = "written"
    /\ UNCHANGED <<cd_cues, cd_read, tcVars, slVars, srtVars, segVars, lgVars, trVars, scVars>>

\* Lines 205 and 209: the cues written as save_transcript_and_create_srt
\* writes the file that process_srt reads
WriteAppended ==
    /\ cd_pc = "write"
    /\ cd_content' = Flatten([k \in 1..Len(cd_cues) |->
                          SrtCue(cd_cues[k].index, format_time(Seconds(cd_cues[k].start_ms)),
                                 format_time(Seconds(cd_cues[k].end_ms)), cd_cues[k].text)])
    /\ cd_pc' = "written"
    /\ UNCHANGED <<cd_cues, cd_read, tcVars, slVars, srtVars, segVars, lgVars, trVars, scVars>>

\* Lines 108-125
ReadBack ==
    /\ cd_pc = "written"
    /\ cd_read' = ReadContent(cd_content)
    /\ cd_pc' = "read"
    /\ UNCHANGED <<cd_cues, cd_content, tcVars, slVars, srtVars, segVars, lgVars, trVars, scVars>>

NextCodec == WriteJoined \/ WriteAppended \/ ReadBack

SpecCodec == InitCodec /\ [][NextCodec]_vars

-----------------------------------------------------------------------------
(* The choice of the language profile at the start of process_srt, for     *)
(* files named <part>_<part>..._<part>.srt                                  *)

MaxParts == 2

NameParts ==
    { <<"a", "d">>, <<"J", "P">>, <<"C", "N">>, <<"K", "R">>, <<"H", "K">>,
      <<"E", "N">>, <<"F", "R">>, <<"j", "p">> }

DotSrt == <<".", "s", "r", "t">>

PathsOf(n) == {Join(<<"_">>, parts) \o DotSrt : parts \in [1..n -> NameParts]}

InitLang ==
    /\ lg_pc = "start" /\ lg_path \in UNION {PathsOf(n) : n \in 1..MaxParts}
    /\ lg_language = "" /\ lg_is_cjk = FALSE /\ lg_max_length = 0
    /\ TcIdle /\ SlIdle /\ SrtIdle /\ SegIdle /\ CdIdle /\ TrIdle /\ ScIdle

\* Lines 88-103
SelectProfile ==
    /\ lg_pc = "start"
    /\ lg_language' = language(lg_path)
    /\ lg_is_cjk' = is_cjk(lg_path)
    /\ lg_max_length' = max_length(lg_path)
    /\ lg_pc' = "selected"
    /\ UNCHANGED <<lg_path, tcVars, slVars, srtVars, segVars, cdVars, trVars, scVars>>

NextLang == SelectProfile

SpecLang == InitLang /\ [][NextLang]_vars

-----------------------------------------------------------------------------
(* One call of translate_text.  tr_attempt is the loop variable of line    *)
(* 116; tr_log is a history variable, the API calls and sleeps made so far. *)

MaxRetries == 3

InitTr ==
    /\ tr_pc = "start" /\ tr_max_retries \in 0..MaxRetries /\ tr_attempt = 0
    /\ tr_log = <<>> /\ tr_result = None /\ tr_raised = ""
    /\ TcIdle /\ SlIdle /\ SrtIdle /\ SegIdle /\ CdIdle /\ LgIdle /\ ScIdle

\* Line 114
CreateClient ==
    /\ tr_pc = "start"
    /\ tr_pc' = "loop"
    /\ UNCHANGED <<tr_max_retries, tr_attempt, tr_log, tr_result, tr_raised,
                   tcVars, slVars, srtVars, segVars, cdVars, lgVars, scVars>>

\* Line 114, outside the try: OpenAI() raises when it is given no key and
\* the environment has none
CreateClientRaises ==
    /\ tr_pc = "start"
    /\ tr_pc' = "raised" /\ tr_raised' = "OpenAIError"
    /\ UNCHANGED <<tr_max_retries, tr_attempt, tr_log, tr_result,
                   tcVars, slVars, srtVars, segVars, cdVars, lgVars, scVars>>

\* Lines 117-144: an attempt that gets a translation returns it
AttemptReturns ==
    /\ tr_pc = "loop" /\ tr_attempt < tr_max_retries
    /\ \E response \in Responses :
        /\ ~Failed(response)
        /\ tr_log' = Append(tr_log, ApiCall(response))
        /\ tr_result' = Returned(Translation(response))
    /\ tr_pc' = "returned"
    /\ UNCHANGED <<tr_max_retries, tr_attempt, tr_raised,
                   tcVars, slVars, srtVars, segVars, cdVars, lgVars, scVars>>

\* Lines 117-139 and 146-159: an attempt that fails is followed by a sleep
\* (line 155) and the next iteration, or by return None (line 159)
AttemptFails ==
    /\ tr_pc = "loop" /\ tr_attempt < tr_max_retries
    /\ \E response \in Responses :
        /\ Failed(response)
        /\ IF WaitsAfter(tr_attempt, tr_max_retries)
           THEN /\ tr_log' = tr_log \o <<ApiCall(response), Sleep(wait_time(tr_attempt))>>
                /\ tr_attempt' = tr_attempt + 1
                /\ UNCHANGED <<tr_pc, tr_result>>
           ELSE /\ tr_log' = Append(tr_log, ApiCall(response))
                /\ tr_result' = None
                /\ tr_pc' = "returned"
                /\ UNCHANGED tr_attempt
    /\ UNCHANGED <<tr_max_retries, tr_raised,
                   tcVars, slVars, srtVars, segVars, cdVars, lgVars, scVars>>

\* Line 116 with range(max_retries) used up: the function ends without a
\* return statement
LoopEnds ==
    /\ tr_pc = "loop" /\ tr_attempt >= tr_max_retries
    /\ tr_result' = None
    /\ tr_pc' = "returned"
    /\ UNCHANGED <<tr_max_retries, tr_attempt, tr_log, tr_raised,
                   tcVars, slVars, srtVars, segVars, cdVars, lgVars, scVars>>

NextTr == CreateClient \/ CreateClientRaises \/ AttemptReturns \/ AttemptFails \/ LoopEnds

SpecTr == InitTr /\ [][NextTr]_vars

-----------------------------------------------------------------------------
(* One call of split_lines, one loop iteration at a time.  sc_st holds the *)
(* locals of the call, sc_words the words the for loop of line 75 has still *)
(* to go through, sc_steps counts the iterations made.                      *)

MaxScanFrags == 2

ScanTexts == UNION {{Flatten(f) : f \in [1..n -> Fragments]} : n \in 0..MaxScanFrags}

InitScan ==
    /\ sc_pc = "loop" /\ sc_text \in ScanTexts /\ sc_max \in SplitBudgets
    /\ sc_cjk \in BOOLEAN /\ sc_st = ScanStart
    /\ sc_words = (IF sc_cjk THEN <<>> ELSE SplitWords(sc_text, <<>>))
    /\ sc_steps = 0 /\ sc_out = <<>>
    /\ TcIdle /\ SlIdle /\ SrtIdle /\ SegIdle /\ CdIdle /\ LgIdle /\ TrIdle

\* Lines 32-69, one iteration
ScanUnit ==
    /\ sc_pc = "loop" /\ sc_cjk /\ sc_st.i < Len(sc_text)
    /\ sc_st' = CjkStep(sc_text, sc_max, sc_st)
    /\ sc_steps' = sc_steps + 1
    /\ UNCHANGED <<sc_pc, sc_text, sc_max, sc_cjk, sc_words, sc_out,
                   tcVars, slVars, srtVars, segVars, cdVars, lgVars, trVars>>

\* Lines 75-80, one iteration
WrapNextWord ==
    /\ sc_pc = "loop" /\ ~sc_cjk /\ sc_words # <<>>
    /\ sc_st' = WrapWord(sc_st, Head(sc_words), sc_max)
    /\ sc_words' = Tail(sc_words)
    /\ sc_steps' = sc_steps + 1
    /\ UNCHANGED <<sc_pc, sc_text, sc_max, sc_cjk, sc_out,
                   tcVars, slVars, srtVars, segVars, cdVars, lgVars, trVars>>

\* Lines 71-72 or 81-82, and 84, once the loop has ended
ReturnLines ==
    /\ sc_pc = "loop"
    /\ IF sc_cjk THEN sc_st.i >= Len(sc_text) ELSE sc_words = <<>>
    /\ sc_out' = FlushLast(sc_st).lines
    /\ sc_pc' = "returned"
    /\ UNCHANGED <<sc_text, sc_max, sc_cjk, sc_st, sc_words, sc_steps,
                   tcVars, slVars, srtVars, segVars, cdVars, lgVars, trVars>>

NextScan == ScanUnit \/ WrapNextWord \/ ReturnLines

SpecScan == InitScan /\ [][NextScan]_vars

\* The interpreter goes on with a loop that has not ended
SpecScanFair == SpecScan /\ WF_vars(NextScan)

-----------------------------------------------------------------------------
(* Properties of process_srt (checked under Spec) *)

\* the cue read from input entry p, and the cue that output entry k reads as
InCue(p) == in_cues[p]

OutCue(k) == out_cues[k]

\* the output entries made from input entry p
SubCues(p) == {k \in 1..Len(new_entries) : origin[k] = p}

First(ks) == CHOOSE k \in ks : \A j \in ks : k <= j

Last(ks) == CHOOSE k \in ks : \A j \in ks : k >= j

\* in[p] and out[k] being the cues read from input entry p and from output
\* entry k: the statement of C1
Contiguous(in, out) ==
    \A p \in 1..pos :
        (SubCues(p) # {} /\ in[p].start_ms <= in[p].end_ms) =>
            /\ out[First(SubCues(p))].start_ms = in[p].start_ms
            /\ \A k \in SubCues(p) \ {Last(SubCues(p))} :
                /\ k + 1 \in SubCues(p)
                /\ out[k].end_ms = out[k + 1].start_ms
                /\ out[k].start_ms <= out[k + 1].start_ms
            /\ \A k, j \in SubCues(p) :
                k < j => out[k].end_ms <= out[j].start_ms

\* C1: the sub-cues of an input cue [start, end), start <= end, re-split
\* into N >= 1 lines: the first starts exactly at start, sub-cue i ends
\* exactly where sub-cue i+1 starts, their starts do not decrease, and no
\* two of them overlap.  (The entries are parsed once each: in and out are
\* bound to the parsed cues.)
C1_SubCuesContiguous ==
    \A in \in {[p \in 1..pos |-> InCue(p)]} :
        \A out \in {[k \in 1..Len(new_entries) |-> OutCue(k)]} :
            Contiguous(in, out)

\* The cue [1000, 2000) re-split into three lines:
\* [1000, 1333), [1333, 1666), [1666, 1999).
C1_Witness ==
    \E p \in 1..pos :
        /\ InCue(p).start_ms = 1000 /\ InCue(p).end_ms = 2000
        /\ Cardinality(SubCues(p)) = 3
        /\ OutCue(First(SubCues(p))).start_ms = 1000
        /\ OutCue(First(SubCues(p))).end_ms = 1333
        /\ OutCue(Last(SubCues(p))).start_ms = 1666
        /\ OutCue(Last(SubCues(p))).end_ms = 1999

\* C2: every cue written for an input cue with start_ms < end_ms has
\* start_ms < end_ms, whatever the number of lines, also when the duration
\* in ms is smaller than the number of lines.
C2_SubCuesNonEmpty ==
    \A p \in 1..pos : \A k \in SubCues(p) :
        InCue(p).start_ms < InCue(p).end_ms => OutCue(k).start_ms < OutCue(k).end_ms

\* the loop of line 110 is at an entry that is not blank
AtEntry == Running /\ pos < Len(entries) /\ Strip(entries[pos + 1]) # <<>>

\* the step that drops the entry at hand: nothing is added to the output and
\* the loop goes on with the next entry
DropsEntry == pos' = pos + 1 /\ new_entries' = new_entries /\ raised' = ""

\* every entry of the file but entry p is well formed and has text
OtherwiseValid(p) ==
    /\ Len(entries) >= 2
    /\ \A q \in (1..Len(entries)) \ {p} :
        /\ ParseEntry(entries[q]).exc = ""
        /\ CueLines(ParseEntry(entries[q]).text, file_path) # <<>>

\* C3: a malformed entry (no time-range line, no ' --> ' separator, an
\* unparseable timecode) in an otherwise valid file is dropped and the run
\* goes on with the entries that follow; it does not abort.
C3_MalformedEntryDropped ==
    [][(/\ AtEntry
        /\ ParseEntry(entries[pos + 1]).exc # ""
        /\ OtherwiseValid(pos + 1))
       => DropsEntry]_vars

\* C4: a cue whose text yields zero display lines gets no sub-cue, and the
\* run goes on with the cues that follow.
C4_NoLinesNoSubCues ==
    [][(/\ AtEntry
        /\ ParseEntry(entries[pos + 1]).exc = ""
        /\ CueLines(ParseEntry(entries[pos + 1]).text, file_path) = <<>>)
       => DropsEntry]_vars

\* in[p] and out[k] as in Contiguous: the statement of C12
DenselyNumbered(in, out) ==
    /\ \A k \in 1..Len(new_entries) : out[k].index = NatToStr(k)
    /\ \A k \in 1..(Len(new_entries) - 1) : origin[k] <= origin[k + 1]
    /\ \A p \in 1..pos :
        Strip(entries[p]) # <<>> =>
            \A lines \in {CueLines(in[p].text, file_path)} :
                /\ Cardinality(SubCues(p)) = Len(lines)
                /\ \A i \in 1..Len(lines) :
                    out[First(SubCues(p)) + i - 1].text = StripPunct(Strip(lines[i]))

\* C12: the entries written are numbered 1, 2, ..., K without gap or
\* duplicate, K being the number of lines of all the input cues together,
\* and they stand in the order of the input cues and, within a cue, of its
\* lines, whatever indices the input entries carry.
C12_DenseNumbering ==
    \A in \in {[p \in 1..pos |-> InCue(p)]} :
        \A out \in {[k \in 1..Len(new_entries) |-> OutCue(k)]} :
            DenselyNumbered(in, out)

\* A file of the cues numbered 7 and 2 has been written as four or more
\* entries.
C12_Witness ==
    /\ new_file.exists
    /\ Len(entries) = 2 /\ Len(new_entries) >= 4
    /\ InCue(1).index = <<"7">> /\ InCue(2).index = <<"2">>
    /\ OutCue(Len(new_entries)).index = NatToStr(Len(new_entries))

\* the input entries read so far that are not blank
CuesRead == {p \in 1..pos : Strip(entries[p]) # <<>>}

\* the cues read so far are intervals in order: none ends before it starts
\* and each starts no earlier than the one before it ends
InputOrdered(in) ==
    /\ \A p \in CuesRead : in[p].start_ms <= in[p].end_ms
    /\ \A p, q \in CuesRead : p < q => in[p].end_ms <= in[q].start_ms

OutputOrdered(out) ==
    \A k \in 1..(Len(new_entries) - 1) :
        /\ out[k].start_ms <= out[k + 1].start_ms
        /\ out[k].end_ms <= out[k + 1].start_ms

\* C13: when the input cues are in order and do not overlap, the starts of
\* the cues written do not decrease and no cue written ends after the next
\* one starts, be the two made from the same input cue or from two input
\* cues that follow each other.
C13_OutputOrdered ==
    \A in \in {[p \in 1..pos |-> InCue(p)]} :
        \A out \in {[k \in 1..Len(new_entries) |-> OutCue(k)]} :
            InputOrdered(in) => OutputOrdered(out)

\* Two input cues in order, each re-split into several entries, have been
\* written.
C13_Witness ==
    /\ new_file.exists
    /\ Len(entries) = 2
    /\ InputOrdered([p \in 1..pos |-> InCue(p)])
    /\ Cardinality(SubCues(1)) >= 2 /\ Cardinality(SubCues(2)) >= 2
    /\ OutCue(Last(SubCues(1))).end_ms <= OutCue(First(SubCues(2))).start_ms

\* the file holds no entry: it is empty or all its entries are blank
NoEntries == \A p \in 1..Len(entries) : Strip(entries[p]) = <<>>

\* C14: the run over a file without any entry (an empty file, or one of
\* blank entries only) fails; it does not complete with the _split file
\* written.
C14_EmptyInputFails == NoEntries => ~new_file.exists

\* in[p] and out[k] as in Contiguous: the statement of C17
NonFinalUnmodified(in, out) ==
    \A p \in CuesRead :
        \A lines \in {CueLines(in[p].text, file_path)} :
            Cardinality(SubCues(p)) = Len(lines) =>
                \A i \in 1..(Len(lines) - 1) :
                    out[First(SubCues(p)) + i - 1].text = lines[i]

\* C17: punctuation is removed only at the end of the last display line of
\* a cue; every line of split_lines before the last is written as it is.
C17_NonFinalLinesUnmodified ==
    \A in \in {[p \in 1..pos |-> InCue(p)]} :
        \A out \in {[k \in 1..Len(new_entries) |-> OutCue(k)]} :
            NonFinalUnmodified(in, out)

\* in[p] and out[k] as in Contiguous: the statement of C18
FloorShares(in, out) ==
    \A p \in CuesRead :
        (in[p].start_ms < in[p].end_ms /\ SubCues(p) # {}) =>
            LET n == Cardinality(SubCues(p))
                share == (in[p].end_ms - in[p].start_ms) \div n
                sub(i) == out[First(SubCues(p)) + i]
            IN  /\ \A i \in 0..(n - 1) :
                    /\ sub(i).start_ms = in[p].start_ms + i * share
                    /\ sub(i).end_ms = in[p].start_ms + (i + 1) * share
                    /\ in[p].start_ms <= sub(i).start_ms
                    /\ sub(i).end_ms <= in[p].end_ms
                /\ sub(n - 1).end_ms <= in[p].end_ms
                /\ in[p].end_ms - sub(n - 1).end_ms <= n - 1

\* C18: a cue [start, end), start < end, re-split into N >= 1 lines gets
\* sub-cues of share = floor((end - start)/N) ms each; every sub-cue lies
\* inside [start, end], and the last one ends at or before end, short of it
\* by N - 1 ms at most.
C18_FloorShare ==
    \A in \in {[p \in 1..pos |-> InCue(p)]} :
        \A out \in {[k \in 1..Len(new_entries) |-> OutCue(k)]} :
            FloorShares(in, out)

\* The cue [1000, 2000) in three lines: the middle sub-cue is
\* [1333, 1666) and the last one ends 1 ms short of 2000.
C18_Witness ==
    \E p \in CuesRead :
        /\ InCue(p).start_ms = 1000 /\ InCue(p).end_ms = 2000
        /\ Cardinality(SubCues(p)) = 3
        /\ OutCue(First(SubCues(p)) + 1).start_ms = 1333
        /\ OutCue(First(SubCues(p)) + 1).end_ms = 1666
        /\ InCue(p).end_ms - OutCue(Last(SubCues(p))).end_ms = 1

\* the entry at hand has a time line 'a --> b' of which a or b is not a
\* timecode: a field is missing or is not a number
MalformedTimecode(entry) ==
    LET parts == SplitOn(entry, <<"\n">>, <<>>)
    IN  /\ Len(parts) >= 2
        /\ Len(SplitOn(parts[2], Arrow, <<>>)) = 2
        /\ \E k \in 1..2 : ~parse_timecode(SplitOn(parts[2], Arrow, <<>>)[k]).ok

\* C19: parse_timecode reads 'HH:MM:SS,mmm' and 'HH:MM:SS:mmm' to the same
\* value, and a string with a wrong number of fields or a field that is not
\* a number comes back to the caller as a Malformed result: the run of
\* process_srt that meets one is not ended by an uncaught exception.
C19_MalformedIsResult ==
    [][(AtEntry /\ MalformedTimecode(entries[pos + 1])) => raised' = ""]_vars

\* C25: an input cue whose end time is <= its start time is reported as an
\* error of the run (NonMonotonicInterval) and no sub-cue is written for
\* it, so none with an empty, reversed or negative interval.
C25_NonMonotonicRejected ==
    [][(/\ AtEntry
        /\ InCue(pos + 1).exc = ""
        /\ InCue(pos + 1).end_ms <= InCue(pos + 1).start_ms)
       => (raised' # "" /\ new_entries' = new_entries)]_vars

\* the texts of the entries written for input entry p, one after the other
Written(p, out) ==
    Flatten([i \in 1..Cardinality(SubCues(p)) |-> out[First(SubCues(p)) + i - 1].text])

\* in[p] and out[k] as in Contiguous: the statement of C27
ShortCueKept(in, out) ==
    \A p \in CuesRead :
        \A text \in {StripPunct(Strip(in[p].text))} :
            Len(text) <= max_length(file_path) =>
                /\ Cardinality(SubCues(p)) = 1
                /\ out[First(SubCues(p))].start_ms = in[p].start_ms
                /\ out[First(SubCues(p))].end_ms = in[p].end_ms
                /\ NonSpace(out[First(SubCues(p))].text) = NonSpace(text)

\* C27: a cue whose text, after whitespace normalisation and the stripping
\* of trailing punctuation, is at most max_length characters long is not
\* re-split: exactly one entry is written for it, with the start and end
\* times of the cue and the same text (compared without its whitespace).
C27_ShortCueNotResplit ==
    \A in \in {[p \in 1..pos |-> InCue(p)]} :
        \A out \in {[k \in 1..Len(new_entries) |-> OutCue(k)]} :
            ShortCueKept(in, out)

\* s without its last character
Chop(s) == SubSeq(s, 1, Len(s) - 1)

\* in[p] and out[k] as in Contiguous: the statement of C28
AtMostLastRemoved(in, out) ==
    \A p \in CuesRead :
        \A text \in {NonSpace(in[p].text)} :
            NonSpace(Written(p, out)) \in {text, Chop(text)}

\* C28: the lines written for a cue, one after the other, are the text of
\* the cue (whitespace apart) with at most its single last character
\* removed, also when the text ends in several punctuation characters.
C28_AtMostOneRemoved ==
    \A in \in {[p \in 1..pos |-> InCue(p)]} :
        \A out \in {[k \in 1..Len(new_entries) |-> OutCue(k)]} :
            AtMostLastRemoved(in, out)

-----------------------------------------------------------------------------
(* Properties of save_transcript_and_create_srt (checked under SpecSeg) *)

\* C5: a segment whose text is empty or all whitespace yields zero chunks:
\* the iteration of the loop that handles it writes no cue.
C5_BlankSegmentNoCue ==
    [][(/\ seg_pc = "loop" /\ seg_i < Len(segments)
        /\ Strip(segments[seg_i + 1].text) = <<>>)
       => srt_content' = srt_content]_vars

\* what the step adds to srt_content
Added == SubSeq(srt_content', Len(srt_content) + 1, Len(srt_content'))

HasArrow(line) == Contains(line, Arrow)

\* the intervals, in ms, of the cues in content
CueTimes(content) ==
    LET lines == SelectSeq(SplitOn(content, <<"\n">>, <<>>), HasArrow)
    IN  [k \in 1..Len(lines) |->
            [start_ms |-> parse_timecode(SplitOn(lines[k], Arrow, <<>>)[1]).val,
             end_ms |-> parse_timecode(SplitOn(lines[k], Arrow, <<>>)[2]).val]]

\* the chunks tile the segment: the first starts where the segment starts,
\* each ends where the next starts, the last ends where the segment ends
Tiles(chunks, segment) ==
    /\ Len(chunks) = Len(Sentences(segment.text))
    /\ chunks[1].start_ms = segment.start
    /\ \A k \in 1..(Len(chunks) - 1) : chunks[k].end_ms = chunks[k + 1].start_ms
    /\ chunks[Len(chunks)].end_ms = segment.end

\* C15: a segment [start, end) whose text splits into N >= 1 sentences is
\* written as N chunks, chunk i over [start + i*share, start + (i+1)*share)
\* with share = (end - start)/N: the first chunk starts at start, each chunk
\* ends where the next starts, and the last ends at end (for N = 1 the one
\* chunk is [start, end)).
C15_ChunksTileSegment ==
    [][(/\ seg_pc = "loop" /\ seg_i < Len(segments)
        /\ Len(Sentences(segments[seg_i + 1].text)) >= 1)
       => \A chunks \in {CueTimes(Added)} : Tiles(chunks, segments[seg_i + 1])]_vars

\* the sentence chunks of a segment: its sentences when there are several
\* (line 193), its stripped text otherwise (line 188)
Chunks(segment) ==
    IF Len(Sentences(segment.text)) > 1 THEN Sentences(segment.text)
    ELSE <<Strip(segment.text)>>

\* the chunks of the segments gone through so far, in order
ChunksSoFar == Flatten([i \in 1..seg_i |-> Chunks(segments[i])])

\* the texts of the cues in srt_content: the third of the four lines (index,
\* times, text, empty line) of every cue
CueTexts(content) ==
    LET lines == SplitOn(content, <<"\n">>, <<>>)
    IN  [k \in 1..(Len(lines) \div 4) |-> lines[4 * (k - 1) + 3]]

\* chunk without its last character if that is in class, else chunk
DropLast(chunk, class) ==
    IF chunk # <<>> /\ chunk[Len(chunk)] \in class
    THEN SubSeq(chunk, 1, Len(chunk) - 1)
    ELSE chunk

EmittedAs(class) ==
    \A texts \in {CueTexts(srt_content)} : \A chunks \in {ChunksSoFar} :
        /\ Len(texts) = Len(chunks)
        /\ \A k \in 1..Len(chunks) : texts[k] = DropLast(chunks[k], class)

\* C16: a sentence chunk is emitted without its last character if that
\* character is sentence-terminal punctuation (. ! ? and the full-width
\* forms), and unchanged otherwise; nothing else is removed.
C16_OnlyTerminalRemoved == EmittedAs(SentenceEnd)

\* C16 as amended: the last character is removed if it is one of
\* . , ! ? or the full-width forms of . ! ? -- the comma included -- and the
\* chunk is emitted unchanged otherwise.
C16_OnlyTrailingRemoved ==
    EmittedAs({".", ",", "!", "?", "U+3002", "U+FF01", "U+FF1F"})

\* The chunks 'Hi,' (comma removed) and 'Hi.', 'Ok?', 'No' (the last one
\* unchanged) have been emitted.
C16_Witness ==
    /\ seg_i = 2
    /\ ChunksSoFar = << <<"H", "i", ",">>, <<"H", "i", ".">>, <<"O", "k", "?">>, <<"N", "o">> >>
    /\ CueTexts(srt_content) = << <<"H", "i">>, <<"H", "i">>, <<"O", "k">>, <<"N", "o">> >>

\* text has two sentence-terminal delimiters in a row
HasDelimiterRun(text) ==
    \E j \in 1..(Len(text) - 1) : text[j] \in SentenceEnd /\ text[j + 1] \in SentenceEnd

OnlyDelimiters(chunk) == \A j \in 1..Len(chunk) : chunk[j] \in SentenceEnd

\* C23: when the text of a segment contains consecutive sentence-terminal
\* delimiters, the empty chunks they produce are discarded: no chunk of the
\* segment consists of delimiters only, and the iteration that handles the
\* segment writes no cue whose text is empty.
C23_DelimiterRunsDiscarded ==
    [][(/\ seg_pc = "loop" /\ seg_i < Len(segments)
        /\ HasDelimiterRun(segments[seg_i + 1].text))
       => /\ \A chunks \in {Chunks(segments[seg_i + 1])} :
               \A k \in 1..Len(chunks) : ~OnlyDelimiters(chunks[k])
          /\ \A texts \in {CueTexts(Added)} :
               \A k \in 1..Len(texts) : texts[k] # <<>>]_vars

\* the indices of the cues in content: the first of the four lines of
\* every cue
CueIndices(content) ==
    LET lines == SplitOn(content, <<"\n">>, <<>>)
    IN  [k \in 1..(Len(lines) \div 4) |-> lines[4 * (k - 1) + 1]]

\* C24: the cues written so far carry the indices 1, 2, 3, ... in order,
\* without duplicate or gap, across all segments, also when a segment has
\* been split into several sentence cues.
C24_IndicesContiguous ==
    \A indices \in {CueIndices(srt_content)} :
        \A k \in 1..Len(indices) : indices[k] = NatToStr(k)

-----------------------------------------------------------------------------
(* Properties of split_lines (checked under SpecSplit) *)

Terms == {preserved_terms[k] : k \in 1..Len(preserved_terms)}

\* the 0-based positions at which term occurs in text
Occurrences(text, term) ==
    {p \in 0..(Len(text) - Len(term)) : Slice(text, p, p + Len(term)) = term}

\* the occurrence of term at position p of sl_text is, character for
\* character, a contiguous part of output line k
InLine(term, p, k) ==
    \E o \in 1..(Len(sl_out[k]) - Len(term) + 1) :
        \A j \in 0..(Len(term) - 1) :
            sl_src[k][o + j] = p + j /\ sl_out[k][o + j] = term[j + 1]

\* C6: in the logographic regime every occurrence of a protected term in the
\* input lies entirely inside one output line, copied verbatim; no
\* occurrence is split across two lines.
C6_TermNeverSplit ==
    (sl_pc = "returned" /\ sl_cjk) =>
        \A term \in Terms : \A p \in Occurrences(sl_text, term) :
            \E k \in 1..Len(sl_out) : InLine(term, p, k)

\* A protected term that straddles the budget of a non-empty line with room
\* left has been moved whole to the start of the next line.
C6_Witness ==
    /\ sl_pc = "returned" /\ sl_cjk
    /\ \E k \in 2..Len(sl_out) : \E term \in Terms :
        /\ StartsWith(sl_out[k], term)
        /\ sl_out[k - 1] # <<>>
        /\ Len(sl_out[k - 1]) < sl_max
        /\ Len(sl_out[k - 1]) + Len(term) > sl_max
        /\ sl_src[k][1] \in Occurrences(sl_text, term)

HasSpace(line) == \E j \in 1..Len(line) : IsSpace(line[j])

\* C7: in the non-logographic regime every returned line is at most
\* max_length characters long, unless it is a single word that is itself
\* longer than max_length.
C7_WordWrapBound ==
    (sl_pc = "returned" /\ ~sl_cjk) =>
        \A k \in 1..Len(sl_out) :
            Len(sl_out[k]) <= sl_max \/ ~HasSpace(sl_out[k])

\* The exception of C7 beside the rule: a single word longer than the budget
\* on a line of its own, after a line that is within the budget.
C7_Witness ==
    /\ sl_pc = "returned" /\ ~sl_cjk
    /\ \E k \in 2..Len(sl_out) :
        /\ Len(sl_out[k]) > sl_max
        /\ sl_out[k - 1] # <<>> /\ Len(sl_out[k - 1]) <= sl_max

IsAsciiRun(line) == \A j \in 1..Len(line) : IsAsciiAlnum(line[j])

\* C8: in the logographic regime no returned line is longer than max_length,
\* unless it is one protected term or one run of ASCII alphanumerics.
C8_LogographicBound ==
    (sl_pc = "returned" /\ sl_cjk) =>
        \A k \in 1..Len(sl_out) :
            \/ Len(sl_out[k]) <= sl_max
            \/ sl_out[k] \in Terms
            \/ IsAsciiRun(sl_out[k])

\* C9: the returned lines, joined by single spaces (non-logographic) or
\* directly (logographic), hold the non-whitespace characters of the input
\* in the same order, none lost, duplicated or reordered.
C9_ContentPreserved ==
    sl_pc = "returned" =>
        NonSpace(Join(IF sl_cjk THEN <<>> ELSE <<" ">>, sl_out)) = NonSpace(sl_text)

\* A text with whitespace inside that was broken into several lines.
C9_Witness ==
    /\ sl_pc = "returned"
    /\ Len(sl_out) >= 2
    /\ \E j \in 2..(Len(sl_text) - 1) : IsSpace(sl_text[j])
    /\ NonSpace(sl_text) # <<>>

\* text has no space, no ASCII alphanumeric and so no protected term: the
\* scan takes it one character at a time
OneByOne(text) ==
    \A j \in 1..Len(text) : text[j] # " " /\ ~IsAsciiAlnum(text[j])

CeilDiv(a, b) == (a + b - 1) \div b

\* C21: logographic text of L >= 1 characters without spaces, ASCII
\* alphanumerics and protected terms is returned, for the budget M, as
\* exactly ceil(L/M) lines, every line M characters long except the last,
\* which holds the remaining L - M*(ceil(L/M) - 1) characters.
C21_LogographicLineCount ==
    (sl_pc = "returned" /\ sl_cjk /\ Len(sl_text) >= 1 /\ OneByOne(sl_text)) =>
        LET n == CeilDiv(Len(sl_text), sl_max)
        IN  /\ Len(sl_out) = n
            /\ \A k \in 1..(n - 1) : Len(sl_out[k]) = sl_max
            /\ Len(sl_out[n]) = Len(sl_text) - sl_max * (n - 1)

\* the end of the maximal run of ASCII alphanumerics of text that starts at
\* the 0-based position i
RECURSIVE RunEnd(_, _)
RunEnd(text, i) ==
    IF i < Len(text) /\ IsAsciiAlnum(text[i + 1]) THEN RunEnd(text, i + 1) ELSE i

\* C22: in the logographic regime, a unit taken at an ASCII alphanumeric
\* character that does not start a protected term is exactly the maximal
\* run of ASCII alphanumerics starting there: it ends before the first
\* character that is a space or is not ASCII alphanumeric.
C22_WordUnitIsAlnumRun ==
    (sl_pc = "returned" /\ sl_cjk) =>
        \A n \in 1..Len(sl_units) :
            LET from == sl_units[n][1]
            IN  (MatchTerm(sl_text, from) = 0 /\ IsAsciiAlnum(sl_text[from + 1]))
                    => sl_units[n][2] = RunEnd(sl_text, from)

\* Twenty characters with the budget 16: two lines, of 16 and of 4.
C21_Witness ==
    /\ sl_pc = "returned" /\ sl_cjk /\ OneByOne(sl_text)
    /\ Len(sl_text) = 20 /\ sl_max = 16
    /\ Len(sl_out) = 2 /\ Len(sl_out[1]) = 16 /\ Len(sl_out[2]) = 4

\* C26: for a text that is not empty and a budget >= 1, in both regimes, no
\* returned line is the empty string, also when the first word or unit of
\* the text is as long as the budget or longer.
C26_NoEmptyLine ==
    (sl_pc = "returned" /\ sl_text # <<>> /\ sl_max >= 1) =>
        \A k \in 1..Len(sl_out) : sl_out[k] # <<>>

-----------------------------------------------------------------------------
(* Properties of the timecode codec (checked under SpecTc) *)

\* C10: for every ms with 0 <= ms < 360000000,
\* parse_timecode(format_timecode(ms)) = ms.
C10_TimecodeRoundTrip ==
    (tc_pc = "done" /\ 0 <= tc_ms /\ tc_ms < 360000000) =>
        (tc_back.ok /\ tc_back.val = tc_ms)

\* The largest offset the claim covers has gone through both conversions.
C10_Witness ==
    /\ tc_pc = "done"
    /\ tc_ms = 359999999
    /\ tc_text = <<"9", "9", ":", "5", "9", ":", "5", "9", ",", "9", "9", "9">>
    /\ tc_back.ok

-----------------------------------------------------------------------------
(* Properties of the subtitle text format (checked under SpecCodec) *)

\* the text lines of a cue joined by single spaces
LineJoin(text) == Join(<<" ">>, SplitOn(text, <<"\n">>, <<>>))

\* C11: a cue list with valid intervals, written in the format of the
\* program and read by the parser of process_srt, gives the same cues: as
\* many, and each with the same index, start_ms, end_ms and text (the lines
\* of a text joined by spaces, outer whitespace aside).
C11_CodecRoundTrip ==
    cd_pc = "read" =>
        /\ cd_read.exc = ""
        /\ Len(cd_read.cues) = Len(cd_cues)
        /\ \A k \in 1..Len(cd_cues) :
            /\ cd_read.cues[k].index = NatToStr(cd_cues[k].index)
            /\ cd_read.cues[k].start_ms = cd_cues[k].start_ms
            /\ cd_read.cues[k].end_ms = cd_cues[k].end_ms
            /\ Strip(cd_read.cues[k].text) = Strip(LineJoin(cd_cues[k].text))

-----------------------------------------------------------------------------
(* Properties of the language profile (checked under SpecLang) *)

\* the language tags of a file <name>_<tag>..._<tag>.srt
TagsOf(path) ==
    LET stem == SubSeq(path, 1, Len(path) - Len(DotSrt))
        parts == SplitOn(stem, <<"_">>, <<>>)
    IN  {parts[k] : k \in 2..Len(parts)}

Logographic == { <<"J", "P">>, <<"C", "N">>, <<"K", "R">>, <<"H", "K">> }

-----------------------------------------------------------------------------
(* Properties of translate_text (checked under SpecTr) *)

IsCall(event) == event.ev = "call"

\* the API attempts made so far
Attempts == SelectSeq(tr_log, IsCall)

\* C29: translate_text makes at most max_retries API attempts; an attempt
\* that gets a non-empty translation is the last event of the run and its
\* translation is what is returned; every sleep comes after a failed
\* attempt and before another attempt (none after the last one); and after
\* max_retries failed attempts (exception or empty translation) the call
\* returns None: no exception leaves the function once an attempt was made.
C29_BoundedRetries ==
    /\ Len(Attempts) <= tr_max_retries
    /\ \A k \in 1..Len(tr_log) :
        /\ (IsCall(tr_log[k]) /\ ~Failed(tr_log[k].response)) =>
               /\ k = Len(tr_log) /\ tr_pc = "returned"
               /\ tr_result = Returned(Translation(tr_log[k].response))
               /\ tr_result.text # <<>>
        /\ tr_log[k].ev = "sleep" =>
               /\ k > 1 /\ IsCall(tr_log[k - 1]) /\ Failed(tr_log[k - 1].response)
               /\ IF k < Len(tr_log) THEN IsCall(tr_log[k + 1])
                  ELSE tr_pc = "loop" /\ tr_attempt < tr_max_retries
    /\ (tr_pc = "returned" /\ \A k \in 1..Len(Attempts) : Failed(Attempts[k].response)) =>
           tr_result = None /\ Len(Attempts) = tr_max_retries
    /\ (tr_pc = "returned" /\ tr_result # None) =>
           tr_log # <<>> /\ ~Failed(tr_log[Len(tr_log)].response)
    /\ tr_raised # "" => tr_log = <<>>

\* Three failed attempts (an exception, an empty translation, a content of
\* None) with sleeps of 2 and 4 seconds between them, then None returned.
C29_Witness ==
    /\ tr_pc = "returned" /\ tr_max_retries = 3 /\ tr_result = None
    /\ Len(tr_log) = 5
    /\ tr_log[1] = ApiCall([kind |-> "raise", content |-> <<>>])
    /\ tr_log[2] = Sleep(2)
    /\ tr_log[3] = ApiCall([kind |-> "content", content |-> <<" ", "\n">>])
    /\ tr_log[4] = Sleep(4)
    /\ tr_log[5] = ApiCall([kind |-> "none", content |-> <<>>])

-----------------------------------------------------------------------------
(* Termination of split_lines (checked under SpecScanFair) *)

\* C30: split_lines terminates in both regimes: in the logographic scan
\* every iteration of the loop moves the position forward, no call makes
\* more than len(text) iterations, and every call returns.
C30_SplitLinesTerminates ==
    /\ [][(sc_pc = "loop" /\ sc_cjk /\ sc_steps' = sc_steps + 1)
             => sc_st'.i > sc_st.i]_vars
    /\ [](sc_steps <= Len(sc_text))
    /\ <>(sc_pc = "returned")

\* A logographic scan that has returned after two or more iterations, one
\* of which took a protected term whole: fewer iterations than the text has
\* characters, and the lines are those of split_lines.
C30_Witness ==
    /\ sc_pc = "returned" /\ sc_cjk
    /\ sc_steps >= 2 /\ sc_steps < Len(sc_text)
    /\ \E n \in 1..Len(sc_st.units) :
           sc_st.units[n][2] - sc_st.units[n][1] = Len(Photoroom)
    /\ sc_out = split_lines(sc_text, sc_max, TRUE)

=============================================================================
